---- MODULE Spec2Model ----
(***************************************************************************)
(* The game loop and interaction controller of the key/button game.       *)
(*                                                                         *)
(* Two of the repository's variants are modelled:                          *)
(*   "main"       src/src/main.ts       two rooms, doors, click-to-pick-up *)
(*                                      keys, counted inventory, localized *)
(*                                      HUD, 60 s countdown                *)
(*   "buttonOnly" src/unnamed/part_001  one room, button only, 30 s        *)
(*                                                                         *)
(* Units.  Lengths are tenths of a world unit (1.5 is 15), so that every   *)
(* coordinate and threshold of the source is an integer; distances are     *)
(* compared squared.  Times are hundredths of a second (0.3 s is 30,       *)
(* 700 ms is 70, 120 ms is 12, 60 s is 6000).                              *)
(*                                                                         *)
(* The rendering and physics libraries are outside the repository.  What   *)
(* world.step() does to the player body is an input of the frame: one of   *)
(* a few resting places of the room the player is in (PhysOutcomes).  The  *)
(* key/button bodies have mass 0 and are never moved by it.  Math.random,  *)
(* the mouse ray's hit test, the time between two frames and the language  *)
(* the user picks are inputs as well.  The forces the movement keys apply  *)
(* are accumulators of the physics library that only world.step() reads.  *)
(*                                                                         *)
(* The browser runs one task at a time: an animation frame, an event       *)
(* handler, or the callback of one setTimeout whose delay has passed.     *)
(* Wall-clock time passes between tasks (Tick).                            *)
(***************************************************************************)
EXTENDS Integers, Sequences, FiniteSets, TLC

VARIABLES
    variant,      \* which file runs: "main" or "buttonOnly"
    pc,           \* position in the module's top-level code, then "run"
    userLang,     \* main.ts:93
    score,        \* main.ts:32, part_001:45
    timeLeft,     \* main.ts:33, part_001:46
    gameOver,     \* main.ts:34, part_001:47
    sceneState,   \* main.ts:37
    inventory,    \* main.ts:29
    hitCooldown,  \* main.ts:474, part_001:189
    hudMsg,       \* the #message element: style.display and textContent
    timers,       \* pending setTimeout callbacks, in the order they were set
    keysPressed,  \* main.ts:438, part_001:182: the keys whose entry is true
    elapsed,      \* performance.now() / 1000 - last (main.ts:473, 603-605)
    player,       \* main.ts:374: body position/velocity and mesh position
    key,          \* main.ts:398: the active key object
    button,       \* main.ts:432, part_001:149: the active button object
    bodies,       \* key/button bodies in the physics world, by object identity
    meshes,       \* key/button meshes in the render scene, by object identity
    profile,      \* which inputs the environment draws: "long", "colors",
                  \* "tiny" or "keys"
    sinceHit,     \* history: time passed since the last button hit, up to 0.3 s
    pickups       \* history: the number of clicks that have hit the key

vars == <<variant, pc, userLang, score, timeLeft, gameOver, sceneState,
          inventory, hitCooldown, hudMsg, timers, keysPressed, elapsed,
          player, key, button, bodies, meshes, profile, sinceHit, pickups>>

-----------------------------------------------------------------------------
(* Bounds of the model *)

\* A click that would raise the number of held keys above this is not drawn:
\* MaxHeld where all three colours are drawn, MaxHeldOneColour elsewhere.
MaxHeld == 2

MaxHeldOneColour == 1

\* Frames of ShortFrame are drawn only during the first MaxShortTime
\* hundredths of a second of play (MaxShortTimeColors when all three colours
\* are drawn or the jump key is used); later frames are LongFrame apart.
MaxShortTime == 550

MaxShortTimeColors == 100

\* In a long play, frames of ShortFrame are drawn only while the frames
\* that scored nothing add up to at most MaxIdleTime.
MaxIdleTime == 100

\* Frames of TinyFrame are drawn, instead of those of ShortFrame, during the
\* first MaxTinyTime of play when the environment draws tiny frames.
MaxTinyTime == 40

\* hitCooldown is only ever compared with 0; values below -MaxOverdue are
\* stored as -MaxOverdue.
MaxOverdue == 20

\* A frame that would raise the player's upward velocity above this without
\* a physics step in between is not drawn.
MaxJumpSpeed == 15

-----------------------------------------------------------------------------
(* Program constants *)

KeyColors == {"red", "green", "blue"}

Locales == {"en", "zh", "ar"}

SCENE2_Z_OFFSET == 1000

WinScore == 10

StartTimeMain == 6000

StartTimeButtonOnly == 3000

HitCooldownTime == 30

NoKeyDelay == 70

DoorMsgDelay == 80

ScaleDelay == 12

ButtonReach == 10

DoorReach == 15

JumpImpulse == 15

PLAYER_SIZE == <<4, 4, 4>>

\* The message strings of the dictionary that reach the #message element.
\* The zh and ar strings are written in ASCII: their language and their key.
translations ==
    [en |-> [noKey           |-> "You don't have that key!",
             missionComplete |-> "MISSION COMPLETE!",
             missionFailed   |-> "MISSION FAILED",
             backScene1      |-> "Back to Scene 1",
             enterScene2     |-> "Entered Scene 2"],
     zh |-> [noKey           |-> "zh:noKey",
             missionComplete |-> "zh:missionComplete",
             missionFailed   |-> "zh:missionFailed",
             backScene1      |-> "zh:backScene1",
             enterScene2     |-> "zh:enterScene2"],
     ar |-> [noKey           |-> "ar:noKey",
             missionComplete |-> "ar:missionComplete",
             missionFailed   |-> "ar:missionFailed",
             backScene1      |-> "ar:backScene1",
             enterScene2     |-> "ar:enterScene2"]]

t(k) == translations[userLang][k]

keyColorHex(name) ==
    IF name = "red" THEN 16711680 ELSE IF name = "green" THEN 65280 ELSE 255

ButtonColorHexB == 16724838

Zero3 == <<0, 0, 0>>

KeySize == <<3, 3, 3>>

ButtonSize == <<7, 3, 7>>

Door1Pos == <<150, 9, 200>>

Door2Pos == <<150, 9, SCENE2_Z_OFFSET - 200>>

Scene1Spawn == <<0, 20, -60>>

Scene2Spawn == <<0, 20, SCENE2_Z_OFFSET>>

\* The four quadrants of a room's floor, main.ts:412-417.
quadrants ==
    <<[xMin |-> -190, xMax |-> -10, zMin |-> -190, zMax |-> -10],
      [xMin |-> 10,   xMax |-> 190, zMin |-> -190, zMax |-> -10],
      [xMin |-> -190, xMax |-> -10, zMin |-> 10,   zMax |-> 190],
      [xMin |-> 10,   xMax |-> 190, zMin |-> 10,   zMax |-> 190]>>

-----------------------------------------------------------------------------
(* Inputs *)

\* The languages the user starts with and picks: English and Arabic, or
\* Arabic alone where all three colours are drawn.
LangInputs == IF profile = "colors" THEN {"ar"} ELSE {"en", "ar"}

\* The number of keys the user holds at most.
HeldLimit == IF profile = "colors" THEN MaxHeld ELSE MaxHeldOneColour

\* The keys the user presses and releases: the jump key, or none.
KeyInputs == IF profile = "keys" THEN {" "} ELSE {}

\* The time between two frames: none, half a second, or a minute (a tab
\* left in the background).
ShortFrame == 50

LongFrame == 6000

\* A frame shorter than the hit cooldown (a slow display: 10 frames a second).
TinyFrame == 10

\* The colours Math.random picks: all of keyColors, or always the first.
ColorDraws == IF profile = "colors" THEN KeyColors ELSE {"red"}

\* What Math.random gives spawnKey: the room and the two randFloat(-19, 19).
KeyDraws ==
    {[scene |-> 2, x |-> 40, z |-> -150]}

\* What Math.random gives spawnButton: the room, the quadrant and the two
\* randFloat(min + 1.5, max - 1.5) within it.
\* In a long play the buttons are drawn in room 1.
ButtonDraws ==
    {d \in [scene : IF profile = "long" THEN {1} ELSE {1, 2},
            q : {4}, x : {100}, z : {100}] :
        /\ quadrants[d.q].xMin + 15 <= d.x /\ d.x <= quadrants[d.q].xMax - 15
        /\ quadrants[d.q].zMin + 15 <= d.z /\ d.z <= quadrants[d.q].zMax - 15}

RoomOf(pos) == IF pos[3] < SCENE2_Z_OFFSET \div 2 THEN 1 ELSE 2

BaseZ(sceneIndex) == IF sceneIndex = 1 THEN 0 ELSE SCENE2_Z_OFFSET

\* Where world.step() can leave the player: at rest below the room's spawn
\* point, moving in front of the room's door, or moving on top of a place
\* where buttons spawn.  The invisible walls keep the body in its room.
PhysOutcomes(pos) ==
    LET b == BaseZ(RoomOf(pos)) IN
    {[position |-> <<-10, 6, b - 60>>, velocity |-> Zero3],
     [position |-> IF RoomOf(pos) = 1 THEN <<150, 6, 190>>
                                      ELSE <<150, 6, SCENE2_Z_OFFSET - 190>>,
      velocity |-> <<0, 0, 30>>],
     [position |-> <<100, 10, 100 + b>>, velocity |-> <<20, 0, 0>>]}

DoorOf(sceneIndex) == IF sceneIndex = 1 THEN Door1Pos ELSE Door2Pos

-----------------------------------------------------------------------------
(* Helpers *)

VSub(a, b) == <<a[1] - b[1], a[2] - b[2], a[3] - b[3]>>

Len2(v) == v[1] * v[1] + v[2] * v[2] + v[3] * v[3]

\* a.vsub(b).length() < r, for r >= 0
Within(a, b, r) == Len2(VSub(a, b)) < r * r

\* One statement after another: e is evaluated once, F goes on from its value.
Pass(e, F(_)) == CHOOSE r \in {F(x) : x \in {e}} : TRUE

NoObj == [id |-> 0, color |-> "none", scene |-> 0]

\* The program state the handlers read and write, as one record.
S == [score |-> score, timeLeft |-> timeLeft, gameOver |-> gameOver,
      sceneState |-> sceneState, inventory |-> inventory,
      hitCooldown |-> hitCooldown, hudMsg |-> hudMsg, timers |-> timers,
      keysPressed |-> keysPressed, player |-> player, key |-> key, button |-> button,
      bodies |-> bodies, meshes |-> meshes]

Commit(r) ==
    /\ score' = r.score
    /\ timeLeft' = r.timeLeft
    /\ gameOver' = r.gameOver
    /\ sceneState' = r.sceneState
    /\ inventory' = r.inventory
    /\ hitCooldown' = r.hitCooldown
    /\ hudMsg' = r.hudMsg
    /\ timers' = r.timers
    /\ keysPressed' = r.keysPressed
    /\ player' = r.player
    /\ key' = r.key
    /\ button' = r.button
    /\ bodies' = r.bodies
    /\ meshes' = r.meshes

\* A new object's identity: the least number no live body or mesh carries.
FreshId(s) ==
    LET used == DOMAIN s.bodies \cup DOMAIN s.meshes IN
    CHOOSE n \in 1..(Cardinality(used) + 1) :
        n \notin used /\ \A m \in 1..(n - 1) : m \in used

Remove(f, id) == [x \in DOMAIN f \ {id} |-> f[x]]

\* makeBox: the body is created at pos and added to the world; the mesh is
\* created (at the origin, three.js's default) and added to the scene.
makeBox(s, size, pos, mass, color) ==
    LET id == FreshId(s) IN
    [s EXCEPT
        !.bodies = (id :> [position |-> pos, size |-> size, mass |-> mass]) @@ @,
        !.meshes = (id :> [position |-> Zero3, scale |-> <<10, 10, 10>>,
                           geometry |-> <<size[1] * 2, size[2] * 2, size[3] * 2>>,
                           color |-> color]) @@ @]

\* syncBodyMesh for a key or button object
syncBodyMesh(s, o) ==
    [s EXCEPT !.meshes[o.id].position = s.bodies[o.id].position]

syncPlayer(s) == [s EXCEPT !.player.meshPosition = s.player.position]

setTimeout(s, src, delay) ==
    [s EXCEPT !.timers = Append(@, [rem |-> delay, src |-> src])]

-----------------------------------------------------------------------------
(* main.ts *)

goToScene1(s) ==
    setTimeout(
        [s EXCEPT !.sceneState = 1,
                  !.player.velocity = Zero3,
                  !.player.angularVelocity = Zero3,
                  !.player.position = Scene1Spawn,
                  !.hudMsg = [display |-> "block", text |-> t("backScene1")]],
        "backScene1", DoorMsgDelay)

goToScene2_atDoor(s) ==
    setTimeout(
        [s EXCEPT !.sceneState = 2,
                  !.player.velocity = Zero3,
                  !.player.angularVelocity = Zero3,
                  !.player.position = <<150, 20, SCENE2_Z_OFFSET - 200>>,
                  !.hudMsg = [display |-> "block", text |-> t("enterScene2")]],
        "enterScene2", DoorMsgDelay)

goToScene2_keepsVelocity(s) ==
    setTimeout(
        [s EXCEPT !.sceneState = 2,
                  !.player.position = Scene2Spawn,
                  !.hudMsg = [display |-> "block", text |-> t("enterScene2")]],
        "enterScene2", DoorMsgDelay)

goToScene2(s) ==
    setTimeout(
        [s EXCEPT !.sceneState = 2,
                  !.player.velocity = Zero3,
                  !.player.angularVelocity = Zero3,
                  !.player.position = Scene2Spawn,
                  !.hudMsg = [display |-> "block", text |-> t("enterScene2")]],
        "enterScene2", DoorMsgDelay)

\* spawnKey, with the assignment of its result to key
spawnKey(s, color, d) ==
    LET pos == <<d.x, 5, d.z + BaseZ(d.scene)>>
        id == FreshId(s)
    IN  [makeBox(s, KeySize, pos, 0, keyColorHex(color))
            EXCEPT !.key = [id |-> id, color |-> color, scene |-> d.scene]]

\* spawnButton, with the assignment of its result to button
spawnButton(s, color, d) ==
    LET pos == <<d.x, 3, d.z + BaseZ(d.scene)>>
        id == FreshId(s)
    IN  [makeBox(s, ButtonSize, pos, 0, keyColorHex(color))
            EXCEPT !.button = [id |-> id, color |-> color, scene |-> d.scene]]

endGame_swapped(s, win) ==
    [s EXCEPT !.gameOver = TRUE,
              !.hudMsg = [display |-> "block",
                          text |-> IF win
                                   THEN translations[userLang].missionFailed
                                   ELSE translations[userLang].missionComplete]]

endGame(s, win) ==
    [s EXCEPT !.gameOver = TRUE,
              !.hudMsg = [display |-> "block",
                          text |-> IF win
                                   THEN translations[userLang].missionComplete
                                   ELSE translations[userLang].missionFailed]]

TickTime_noClamp(s, dt) ==
    [s EXCEPT !.timeLeft = @ - dt]

\* update, lines 486-487
TickTime(s, dt) ==
    [s EXCEPT !.timeLeft = IF @ - dt < 0 THEN 0 ELSE @ - dt]

Decay(c, dt) == IF c - dt < 0 - MaxOverdue THEN 0 - MaxOverdue ELSE c - dt

\* world.step(FIXED_STEP, dt, MAX_SUBSTEPS): no sub-step runs when no time
\* has passed; otherwise the player body ends where the input says.
worldStep(s, dt, out) ==
    IF dt > 0
    THEN [s EXCEPT !.player.position = out.position,
                   !.player.velocity = out.velocity]
    ELSE s

\* update, lines 503-506: position.y <= PLAYER_SIZE.y + 0.55, in twentieths;
\* the player body has mass 1 and a fixed rotation, so the impulse adds 1.5
\* to its upward velocity and nothing else.
jump(s) ==
    IF " " \in s.keysPressed
       /\ 2 * s.player.position[2] <= 2 * PLAYER_SIZE[2] + 11
    THEN [s EXCEPT !.player.velocity[2] = @ + JumpImpulse]
    ELSE s

\* update, lines 491-515: cooldown, forces, physics step, body-to-mesh copies
PreHit(s, dt, in) ==
    Pass(worldStep(jump([s EXCEPT !.hitCooldown = Decay(@, dt)]), dt, in.phys),
         LAMBDA s2 : syncBodyMesh(syncBodyMesh(syncPlayer(s2), s2.button), s2.key))

ButtonHit_noCooldown(s) ==
    Within(s.player.position, s.bodies[s.button.id].position, ButtonReach)

\* update, lines 518-519
ButtonHit(s) ==
    /\ Within(s.player.position, s.bodies[s.button.id].position, ButtonReach)
    /\ s.hitCooldown <= 0

\* update, lines 522-525
NoKeyMessage(s) ==
    setTimeout([s EXCEPT !.hudMsg = [display |-> "block", text |-> t("noKey")]],
               "noKey", NoKeyDelay)

Match_winAbove(s, in) ==
    LET s1 == [s EXCEPT !.inventory[s.button.color] = @ - 1,
                        !.score = @ + 1,
                        !.meshes[s.button.id].scale = <<10, 5, 10>>]
        s2 == setTimeout(s1, "scale", ScaleDelay)
        s3 == [s2 EXCEPT !.meshes = Remove(@, s.button.id),
                         !.bodies = Remove(@, s.button.id)]
        s4 == spawnButton(s3, in.color, in.draw)
    IN  IF s4.score > WinScore THEN endGame(s4, TRUE) ELSE s4

Match_keepsKey(s, in) ==
    LET s1 == [s EXCEPT !.score = @ + 1,
                        !.meshes[s.button.id].scale = <<10, 5, 10>>]
        s2 == setTimeout(s1, "scale", ScaleDelay)
        s3 == [s2 EXCEPT !.meshes = Remove(@, s.button.id),
                         !.bodies = Remove(@, s.button.id)]
        s4 == spawnButton(s3, in.color, in.draw)
    IN  IF s4.score >= WinScore THEN endGame(s4, TRUE) ELSE s4

\* update, lines 527-541
Match(s, in) ==
    LET s1 == [s EXCEPT !.inventory[s.button.color] = @ - 1,
                        !.score = @ + 1,
                        !.meshes[s.button.id].scale = <<10, 5, 10>>]
        s2 == setTimeout(s1, "scale", ScaleDelay)
        s3 == [s2 EXCEPT !.meshes = Remove(@, s.button.id),
                         !.bodies = Remove(@, s.button.id)]
        s4 == spawnButton(s3, in.color, in.draw)
    IN  IF s4.score >= WinScore THEN endGame(s4, TRUE) ELSE s4

\* update, lines 545-552
DoorCheck(s) ==
    LET s1 == IF s.sceneState = 1 /\ Within(s.player.position, Door1Pos, DoorReach)
              THEN goToScene2(s) ELSE s
    IN  IF s1.sceneState = 2 /\ Within(s1.player.position, Door2Pos, DoorReach)
        THEN goToScene1(s1) ELSE s1

\* update, lines 518-552, from the state s2 the physics step and the
\* body-to-mesh copies have left
Interact(s2, in) ==
    IF ButtonHit(s2)
    THEN LET s3 == [s2 EXCEPT !.hitCooldown = HitCooldownTime] IN
         IF s3.inventory[s3.button.color] <= 0
         THEN NoKeyMessage(s3)
         ELSE Pass(Match(s3, in), DoorCheck)
    ELSE DoorCheck(s2)

update_timeoutLast(s, dt, in) ==
    IF s.gameOver THEN s
    ELSE LET s1 == TickTime(s, dt)
             r  == Pass(PreHit(s1, dt, in), LAMBDA s2 : Interact(s2, in))
         IN  IF s1.timeLeft <= 0 THEN endGame(r, FALSE) ELSE r

update_noKeyCheck(s, dt, in) ==
    IF s.gameOver THEN s
    ELSE LET s1 == TickTime(s, dt) IN
         IF s1.timeLeft <= 0 THEN endGame(s1, FALSE)
         ELSE Pass(PreHit(s1, dt, in),
                   LAMBDA s2 :
                       IF ButtonHit(s2)
                       THEN Pass(Match([s2 EXCEPT !.hitCooldown = HitCooldownTime],
                                       in), DoorCheck)
                       ELSE DoorCheck(s2))

update(s, dt, in) ==
    IF s.gameOver THEN s
    ELSE LET s1 == TickTime(s, dt) IN
         IF s1.timeLeft <= 0 THEN endGame(s1, FALSE)
         ELSE Pass(PreHit(s1, dt, in), LAMBDA s2 : Interact(s2, in))

mousedown_keepsKey(s, hit, color, d) ==
    IF hit
    THEN spawnKey([s EXCEPT !.inventory[s.key.color] = @ + 1], color, d)
    ELSE s

\* the mousedown handler, lines 451-468
mousedown(s, hit, color, d) ==
    IF hit
    THEN LET s1 == [s EXCEPT !.inventory[s.key.color] = @ + 1,
                             !.meshes = Remove(@, s.key.id),
                             !.bodies = Remove(@, s.key.id)]
         IN  spawnKey(s1, color, d)
    ELSE s

-----------------------------------------------------------------------------
(* part_001 *)

spawnButtonB(s, d) ==
    LET pos == <<d.x, 3, d.z>>
        id == FreshId(s)
    IN  [makeBox(s, ButtonSize, pos, 0, ButtonColorHexB)
            EXCEPT !.button = [id |-> id, color |-> "none", scene |-> 1]]

endGameB(s, win) ==
    [s EXCEPT !.gameOver = TRUE,
              !.hudMsg = [display |-> "block",
                          text |-> IF win THEN "MISSION COMPLETE!"
                                          ELSE "MISSION FAILED"]]

\* update, lines 200-222
PreHitB(s, dt, in) ==
    Pass(worldStep(jump([s EXCEPT !.hitCooldown = Decay(@, dt)]), dt, in.phys),
         LAMBDA s2 : syncBodyMesh(syncPlayer(s2), s2.button))

MatchB_noWin(s, in) ==
    LET s1 == [s EXCEPT !.hitCooldown = HitCooldownTime,
                        !.score = @ + 1,
                        !.meshes[s.button.id].scale = <<10, 5, 10>>]
        s2 == setTimeout(s1, "scale", ScaleDelay)
        s3 == [s2 EXCEPT !.meshes = Remove(@, s.button.id),
                         !.bodies = Remove(@, s.button.id)]
    IN  spawnButtonB(s3, in.draw)

\* update, lines 226-240
MatchB(s, in) ==
    LET s1 == [s EXCEPT !.hitCooldown = HitCooldownTime,
                        !.score = @ + 1,
                        !.meshes[s.button.id].scale = <<10, 5, 10>>]
        s2 == setTimeout(s1, "scale", ScaleDelay)
        s3 == [s2 EXCEPT !.meshes = Remove(@, s.button.id),
                         !.bodies = Remove(@, s.button.id)]
        s4 == spawnButtonB(s3, in.draw)
    IN  IF s4.score >= WinScore THEN endGameB(s4, TRUE) ELSE s4

updateB(s, dt, in) ==
    IF s.gameOver THEN s
    ELSE LET s1 == TickTime(s, dt) IN
         IF s1.timeLeft <= 0 /\ ~s1.gameOver THEN endGameB(s1, FALSE)
         ELSE Pass(PreHitB(s1, dt, in),
                   LAMBDA s2 : IF ButtonHit(s2) THEN MatchB(s2, in) ELSE s2)

-----------------------------------------------------------------------------
(* Timers *)

\* The pending callbacks whose delay has passed.
Due(ts) == {i \in DOMAIN ts : ts[i].rem <= 0}

\* d more time has passed.  What is left of a delay is only ever compared
\* with 0: a delay that has passed is stored as 0, however long ago it did.
passTime(s, d) ==
    [s EXCEPT !.timers = [i \in DOMAIN s.timers |->
                             [rem |-> IF s.timers[i].rem - d < 0 THEN 0
                                      ELSE s.timers[i].rem - d,
                              src |-> s.timers[i].src]]]

\* The delay the timer that src names was set with: main.ts:534 and
\* part_001:231, main.ts:524, main.ts:356 and 367.
DelayOf(src) ==
    IF src = "scale" THEN ScaleDelay
    ELSE IF src = "noKey" THEN NoKeyDelay
    ELSE DoorMsgDelay

\* The callback of the timer that src names.  main.ts:356, 367, 524 hide
\* the message; main.ts:534 and part_001:231 reset the scale of the mesh of
\* whatever button is active when the callback runs.
timerCallback(s, src) ==
    IF src = "scale"
    THEN [s EXCEPT !.meshes[s.button.id].scale = <<10, 10, 10>>]
    ELSE [s EXCEPT !.hudMsg.display = "none"]

\* The due timers the browser may run next.  A timer set earlier with an
\* equal or shorter delay runs first; the order is otherwise the browser's.
Runnable(ts) ==
    {i \in Due(ts) :
        \A j \in 1..(i - 1) : DelayOf(ts[j].src) > DelayOf(ts[i].src)}

\* The browser runs the callback of the i-th pending timer and forgets it.
runTimer(s, i) ==
    [timerCallback(s, s.timers[i].src) EXCEPT
        !.timers = SubSeq(s.timers, 1, i - 1)
                   \o SubSeq(s.timers, i + 1, Len(s.timers))]

-----------------------------------------------------------------------------
(* The state machine *)

Init ==
    /\ variant \in {"main", "buttonOnly"}
    /\ profile \in (IF variant = "main" THEN {"long", "colors", "tiny", "keys"}
                                        ELSE {"long", "tiny", "keys"})
    /\ pc = IF variant = "main" THEN "spawnKey398" ELSE "spawnButton149"
    /\ userLang \in (IF variant = "main" THEN LangInputs ELSE {"en"})
    /\ score = 0
    /\ timeLeft = IF variant = "main" THEN StartTimeMain ELSE StartTimeButtonOnly
    /\ gameOver = FALSE
    /\ sceneState = 1
    /\ inventory = [c \in KeyColors |-> 0]
    /\ hitCooldown = 0
    /\ hudMsg = [display |-> "none", text |-> ""]
    /\ timers = <<>>
    /\ keysPressed = {}
    /\ elapsed = 0
    /\ player = [position |-> Scene1Spawn, velocity |-> Zero3,
                 angularVelocity |-> Zero3, meshPosition |-> Zero3]
    /\ key = NoObj
    /\ button = NoObj
    /\ bodies = <<>>
    /\ meshes = <<>>
    /\ sinceHit = HitCooldownTime
    /\ pickups = 0

\* main.ts:398  let key = spawnKey("red")
InitSpawnKey ==
    /\ pc = "spawnKey398"
    /\ \E d \in KeyDraws : Commit(spawnKey(S, "red", d))
    /\ pc' = "spawnButton432"
    /\ UNCHANGED <<variant, userLang, elapsed, profile, sinceHit, pickups>>

\* main.ts:432  let button = spawnButton()
InitSpawnButton ==
    /\ pc = "spawnButton432"
    /\ \E c \in ColorDraws, d \in ButtonDraws : Commit(spawnButton(S, c, d))
    /\ pc' = "spawnKey433"
    /\ UNCHANGED <<variant, userLang, elapsed, profile, sinceHit, pickups>>

\* main.ts:433  key = spawnKey(keyColors[...])
InitRespawnKey ==
    /\ pc = "spawnKey433"
    /\ \E c \in ColorDraws, d \in KeyDraws : Commit(spawnKey(S, c, d))
    /\ pc' = "run"
    /\ UNCHANGED <<variant, userLang, elapsed, profile, sinceHit, pickups>>

\* part_001:149  let button = spawnButton()
InitSpawnButtonB ==
    /\ pc = "spawnButton149"
    /\ \E d \in ButtonDraws : d.scene = 1 /\ Commit(spawnButtonB(S, d))
    /\ pc' = "run"
    /\ UNCHANGED <<variant, userLang, elapsed, profile, sinceHit, pickups>>

Held == inventory["red"] + inventory["green"] + inventory["blue"]

\* A mouse click: the ray hits the key's mesh or misses it.
ClickResult(hit, c, d) ==
    [r |-> mousedown(S, hit, c, d),
     pickups |-> IF hit THEN pickups + 1 ELSE pickups]

Click(hit, c, d) ==
    /\ pc = "run"
    /\ variant = "main"
    /\ hit => Held < HeldLimit
    /\ \E x \in {ClickResult(hit, c, d)} : Commit(x.r) /\ pickups' = x.pickups
    /\ UNCHANGED <<variant, pc, userLang, elapsed, profile, sinceHit>>

Mousedown ==
    /\ pc = "run"
    /\ variant = "main"
    /\ \E x \in {ClickResult(hit, c, d) :
                    hit \in {h \in BOOLEAN : h => Held < HeldLimit},
                    c \in ColorDraws, d \in KeyDraws} :
          Commit(x.r) /\ pickups' = x.pickups
    /\ UNCHANGED <<variant, pc, userLang, elapsed, profile, sinceHit>>

\* the language buttons' click handler, main.ts:589-593; applyLanguage
\* rewrites the labels, the score, the time and the inventory box, none of
\* which is program state
LangClick ==
    /\ pc = "run"
    /\ variant = "main"
    /\ \E lang \in LangInputs :
          /\ lang # userLang
          /\ userLang' = lang
    /\ UNCHANGED <<variant, pc, score, timeLeft, gameOver, sceneState,
                   inventory, hitCooldown, hudMsg, timers, keysPressed,
                   elapsed, player, key, button, bodies, meshes, profile,
                   sinceHit, pickups>>

\* the keydown handler, main.ts:439-442, part_001:182
keydown(s, k) == [s EXCEPT !.keysPressed = @ \cup {k}]

\* the keyup handler, main.ts:443-446, part_001:183
keyup(s, k) == [s EXCEPT !.keysPressed = @ \ {k}]

Keydown ==
    /\ pc = "run"
    /\ \E k \in KeyInputs : Commit(keydown(S, k))
    /\ UNCHANGED <<variant, pc, userLang, elapsed, profile, sinceHit, pickups>>

Keyup ==
    /\ pc = "run"
    /\ \E k \in KeyInputs : Commit(keyup(S, k))
    /\ UNCHANGED <<variant, pc, userLang, elapsed, profile, sinceHit, pickups>>

\* The callback of one timer whose delay has passed runs as a task of its own.
TimerFire ==
    /\ pc = "run"
    /\ \E i \in Runnable(timers) : Commit(runTimer(S, i))
    /\ UNCHANGED <<variant, pc, userLang, elapsed, profile, sinceHit, pickups>>

StartTime == IF variant = "main" THEN StartTimeMain ELSE StartTimeButtonOnly

FrameTimes ==
    IF profile = "tiny"
    THEN IF StartTime - timeLeft < MaxTinyTime
         THEN {0, TinyFrame, LongFrame} ELSE {0, LongFrame}
    ELSE IF profile = "long"
    THEN IF /\ StartTime - timeLeft < MaxShortTime
            /\ StartTime - timeLeft - ShortFrame * score <= MaxIdleTime
         THEN {0, ShortFrame, LongFrame} ELSE {0, LongFrame}
    ELSE IF StartTime - timeLeft < MaxShortTimeColors
         THEN {0, ShortFrame, LongFrame} ELSE {0, LongFrame}

\* The outcomes of world.step() that are drawn: in a long play the player
\* keeps away from the doors.
PhysDraws(pos) ==
    IF profile = "long"
    THEN {o \in PhysOutcomes(pos) :
             ~Within(o.position, DoorOf(RoomOf(pos)), DoorReach)}
    ELSE PhysOutcomes(pos)

FrameInputs ==
    [phys : PhysDraws(player.position), color : ColorDraws, draw : ButtonDraws]

\* The timers a button hit sets: main.ts:524 and 534, part_001:231.
HitTimers(ts) == Cardinality({i \in DOMAIN ts : ts[i].src \in {"noKey", "scale"}})

\* The history of hits after the frame of dt that takes b to r: a frame that
\* set a hit timer is a hit; otherwise dt more has passed since the last one.
SinceHitAfter(b, r, dt) ==
    IF b.gameOver THEN sinceHit
    ELSE IF HitTimers(r.timers) > HitTimers(b.timers) THEN 0
    ELSE IF sinceHit + dt > HitCooldownTime THEN HitCooldownTime
    ELSE sinceHit + dt

\* A frame with no time passed that makes the player jump is drawn only
\* while the upward velocity stays within MaxJumpSpeed.
JumpDrawn ==
    (elapsed = 0 /\ ~gameOver /\ jump(S) # S) =>
        jump(S).player.velocity[2] <= MaxJumpSpeed

\* The animation frame callback runs at time now, whether or not the
\* callbacks of the timers that are due have run; dt = now - last.
FrameReady(dt) ==
    /\ pc = "run"
    /\ dt = elapsed
    /\ JumpDrawn

FrameResult(in) ==
    LET r == update(S, elapsed, in)
    IN  [r |-> r, since |-> SinceHitAfter(S, r, elapsed)]

\* loop(), main.ts:602-609: update(now - last); last = now
FrameStep(dt, in) ==
    /\ FrameReady(dt)
    /\ variant = "main"
    /\ \E b \in {S} : \E r \in {update(b, dt, in)} :
          Commit(r) /\ sinceHit' = SinceHitAfter(b, r, dt)
    /\ elapsed' = 0
    /\ UNCHANGED <<variant, pc, userLang, profile, pickups>>

Frame ==
    /\ FrameReady(elapsed)
    /\ variant = "main"
    /\ \E x \in {FrameResult(in) : in \in FrameInputs} :
          Commit(x.r) /\ sinceHit' = x.since
    /\ elapsed' = 0
    /\ UNCHANGED <<variant, pc, userLang, profile, pickups>>

FrameInputsB ==
    {in \in FrameInputs : in.color = "red" /\ in.draw.scene = 1}

FrameResultB(in) ==
    LET r == updateB(S, elapsed, in)
    IN  [r |-> r, since |-> SinceHitAfter(S, r, elapsed)]

\* loop(), part_001:267-274
FrameStepB(dt, in) ==
    /\ FrameReady(dt)
    /\ variant = "buttonOnly"
    /\ \E b \in {S} : \E r \in {updateB(b, dt, in)} :
          Commit(r) /\ sinceHit' = SinceHitAfter(b, r, dt)
    /\ elapsed' = 0
    /\ UNCHANGED <<variant, pc, userLang, profile, pickups>>

FrameB ==
    /\ FrameReady(elapsed)
    /\ variant = "buttonOnly"
    /\ \E x \in {FrameResultB(in) : in \in FrameInputsB} :
          Commit(x.r) /\ sinceHit' = x.since
    /\ elapsed' = 0
    /\ UNCHANGED <<variant, pc, userLang, profile, pickups>>

\* Time passes until the next animation frame: the pending timers come
\* nearer, whether or not the callbacks of those that are due have run.
Tick ==
    /\ pc = "run"
    /\ elapsed = 0
    /\ \E d \in FrameTimes \ {0} :
          /\ elapsed' = d
          /\ timers' = passTime(S, d).timers
    /\ UNCHANGED <<variant, pc, userLang, score, timeLeft, gameOver,
                   sceneState, inventory, hitCooldown, hudMsg, keysPressed,
                   player, key, button, bodies, meshes, profile, sinceHit,
                   pickups>>

Next ==
    \/ InitSpawnKey
    \/ InitSpawnButton
    \/ InitRespawnKey
    \/ InitSpawnButtonB
    \/ Mousedown
    \/ LangClick
    \/ Keydown
    \/ Keyup
    \/ Tick
    \/ TimerFire
    \/ Frame
    \/ FrameB

Spec == Init /\ [][Next]_vars

\* The module's top-level code runs to its end.
Boot == InitSpawnKey \/ InitSpawnButton \/ InitRespawnKey \/ InitSpawnButtonB

\* requestAnimationFrame(loop) at the end of every frame: the frame that
\* follows a passage of time comes.
PositiveFrame ==
    /\ elapsed > 0
    /\ elapsed' = 0
    /\ \/ \E in \in FrameInputs : FrameStep(elapsed, in)
       \/ \E in \in FrameInputsB : FrameStepB(elapsed, in)

\* The top-level code ends, time passes, frames come.  Nothing is assumed
\* about when the callback of a due timer runs.
LiveSpec ==
    Spec /\ WF_vars(Boot) /\ WF_vars(Tick) /\ WF_vars(PositiveFrame)

-----------------------------------------------------------------------------
(* What the claims speak of *)

Running == pc = "run"

KeyBodies == {id \in DOMAIN bodies : bodies[id].size = KeySize}

ButtonBodies == {id \in DOMAIN bodies : bodies[id].size = ButtonSize}

KeyMeshes == {id \in DOMAIN meshes : meshes[id].geometry = <<6, 6, 6>>}

ButtonMeshes == {id \in DOMAIN meshes : meshes[id].geometry = <<14, 6, 14>>}

\* The frame of dt gets past the game-over and time-out returns.
Reaches(dt) == Running /\ ~gameOver /\ timeLeft - dt > 0

\* Where the player body is after the frame's physics step.
PosAfterStep(dt, in) == IF dt > 0 THEN in.phys.position ELSE player.position

\* The player hits the button in the frame of dt: distance < 1, cooldown expired.
Hits(dt, in) ==
    /\ Reaches(dt)
    /\ Within(PosAfterStep(dt, in), bodies[button.id].position, ButtonReach)
    /\ hitCooldown - dt <= 0

Rejected(dt, in) ==
    variant = "main" /\ Hits(dt, in) /\ inventory[button.color] = 0

Matched(dt, in) ==
    Hits(dt, in) /\ (variant = "main" => inventory[button.color] > 0)

AnyFrameStep(dt, in) ==
    IF variant = "main" THEN FrameStep(dt, in) ELSE FrameStepB(dt, in)

AnyFrameInputs == IF variant = "main" THEN FrameInputs ELSE FrameInputsB

CompleteText ==
    IF variant = "main" THEN translations[userLang].missionComplete
    ELSE "MISSION COMPLETE!"

FailedText ==
    IF variant = "main" THEN translations[userLang].missionFailed
    ELSE "MISSION FAILED"

AllCompleteTexts ==
    {translations[l].missionComplete : l \in Locales} \cup {"MISSION COMPLETE!"}

AllFailedTexts ==
    {translations[l].missionFailed : l \in Locales} \cup {"MISSION FAILED"}

WinTransition == ~gameOver /\ gameOver' /\ hudMsg'.text \in AllCompleteTexts

LoseTransition == ~gameOver /\ gameOver' /\ hudMsg'.text \in AllFailedTexts

-----------------------------------------------------------------------------
(* C1 *)

\* C1: in the two-room variant, once the module's top-level code has run,
\* the physics world and the render scene hold exactly one key and exactly
\* one button.
C1_OneKeyOneButton ==
    (variant = "main" /\ Running) =>
        /\ Cardinality(KeyBodies) = 1
        /\ Cardinality(KeyMeshes) = 1
        /\ Cardinality(ButtonBodies) = 1
        /\ Cardinality(ButtonMeshes) = 1

\* The red key of main.ts:398 is still in the world and in the scene next
\* to the active key.
C1_Witness ==
    /\ variant = "main"
    /\ Running
    /\ Cardinality(KeyBodies) = 2
    /\ Cardinality(KeyMeshes) = 2
    /\ Cardinality(ButtonBodies) = 1

(* C2 *)

\* C2: once gameOver is set, no step changes score, timeLeft, the inventory,
\* the active key, the active button, the room tag or the player's position.
C2_FrozenAfterGameOver ==
    [][gameOver =>
          /\ UNCHANGED <<score, timeLeft, inventory, key, button, sceneState>>
          /\ player'.position = player.position]_vars

(* C3 *)

\* C3: in the two-room variant every inventory count is >= 0, and a frame in
\* which the player hits the button while the count of the button's colour
\* is 0 shows the no-key message and leaves score, the inventory, the active
\* button and the active key as they were.
C3_WrongKeyRejected ==
    /\ [](variant = "main" => \A c \in KeyColors : inventory[c] >= 0)
    /\ [][\A in \in FrameInputs :
            (Rejected(elapsed, in) /\ FrameStep(elapsed, in)) =>
                /\ hudMsg' = [display |-> "block",
                              text |-> translations[userLang].noKey]
                /\ UNCHANGED <<score, inventory, button, key>>
                /\ button.id \in DOMAIN bodies' /\ button.id \in DOMAIN meshes'
                /\ key.id \in DOMAIN bodies' /\ key.id \in DOMAIN meshes']_vars

\* A rejection has just happened while a key of another colour is held.
C3_Witness ==
    /\ variant = "main"
    /\ Running
    /\ hudMsg = [display |-> "block", text |-> translations[userLang].noKey]
    /\ hitCooldown = HitCooldownTime
    /\ inventory[button.color] = 0
    /\ Held >= 1
    /\ Len(timers) >= 1
    /\ timers[Len(timers)] = [rem |-> NoKeyDelay, src |-> "noKey"]

(* C4 *)

\* C4: in both variants score never exceeds 10 and never decreases, a frame
\* with a successful button interaction raises it by exactly 1, and the game
\* is over whenever score is 10.
C4_ScoreBounded ==
    /\ [](score <= 10)
    /\ [](score = 10 => gameOver)
    /\ [][score' >= score]_vars
    /\ [][\A in \in AnyFrameInputs :
            (Matched(elapsed, in) /\ AnyFrameStep(elapsed, in))
                => score' = score + 1]_vars

\* The button-only game has been won.
C4_Witness == variant = "buttonOnly" /\ score = 10 /\ gameOver

(* C5 *)

\* C5: timeLeft never rises and is never negative; it starts from 60 s in
\* main.ts and 30 s in part_001; a frame longer than what is left of it
\* brings it to 0; after gameOver it no longer changes.
C5_TimeLeftMonotone ==
    /\ [](timeLeft >= 0)
    /\ [](~Running => timeLeft = (IF variant = "main" THEN 6000 ELSE 3000))
    /\ [][timeLeft' <= timeLeft]_vars
    /\ [][gameOver => timeLeft' = timeLeft]_vars
    /\ [][\A in \in AnyFrameInputs :
            (/\ Running /\ ~gameOver /\ timeLeft - elapsed < 0
             /\ AnyFrameStep(elapsed, in)) => timeLeft' = 0]_vars

\* Time has run out in a frame that was longer than the time left.
C5_Witness == gameOver /\ timeLeft = 0 /\ score > 0

(* C6 *)

\* C6: the frame of the 10th successful match ends the game as a win, with
\* time left, and shows the mission-complete text of the current language;
\* the game is won in no other frame.
C6_WinAtTen ==
    /\ [][(score # 10 /\ score' = 10) =>
            /\ WinTransition
            /\ hudMsg' = [display |-> "block", text |-> CompleteText]
            /\ timeLeft' > 0]_vars
    /\ [][WinTransition => (score = 9 /\ score' = 10)]_vars

\* The two-room game has been won in Arabic.
C6_Witness ==
    /\ variant = "main"
    /\ gameOver
    /\ score = 10
    /\ timeLeft > 0
    /\ userLang = "ar"
    /\ hudMsg = [display |-> "block", text |-> translations["ar"].missionComplete]

(* C7 *)

\* C7: with frames that keep coming the game ends; the frame that brings
\* timeLeft to 0 ends it as a loss and shows the mission-failed text of the
\* current language; the game is never lost while time is left.
C7_LoseAtZero ==
    /\ <>gameOver
    /\ [](gameOver => (timeLeft = 0 \/ score = 10))
    /\ [][(timeLeft > 0 /\ timeLeft' = 0) =>
            /\ LoseTransition
            /\ hudMsg' = [display |-> "block", text |-> FailedText]]_vars
    /\ [][LoseTransition => timeLeft' = 0]_vars

\* The two-room game has been lost with fewer than 10 matches.
C7_Witness ==
    /\ variant = "main"
    /\ gameOver
    /\ timeLeft = 0
    /\ score < 10
    /\ score > 0
    /\ hudMsg = [display |-> "block", text |-> translations[userLang].missionFailed]

(* C8 *)

\* C8: a no-key message stays visible until its own 700 ms timer runs: while
\* a no-key timer is pending, the message element is displayed.
C8_NoKeyMessageStaysVisible ==
    \A i \in DOMAIN timers :
        timers[i].src = "noKey" => hudMsg.display = "block"

\* An earlier message's timer has hidden a no-key message whose own timer
\* still has time to run.
C8_Witness ==
    /\ hudMsg = [display |-> "none", text |-> translations[userLang].noKey]
    /\ \E i \in DOMAIN timers : timers[i].src = "noKey" /\ timers[i].rem > 0

(* C9 *)

NearDoor(dt, in) ==
    \/ sceneState = 1 /\ Within(PosAfterStep(dt, in), Door1Pos, DoorReach)
    \/ sceneState = 2 /\ Within(PosAfterStep(dt, in), Door2Pos, DoorReach)

\* The frame of dt gets to the door check with the player at the door of
\* the current room.
AtDoor(dt, in) ==
    variant = "main" /\ Reaches(dt) /\ ~Rejected(dt, in) /\ NearDoor(dt, in)

\* C9: a frame that reaches the door check with the player within 1.5 of the
\* current room's door flips the room tag, zeroes the player's linear and
\* angular velocity and puts the player at the other room's spawn point
\* ((0,2,100) for room 2, (0,2,-6) for room 1); the tag changes in no other
\* step and is always 1 or 2.
C9_DoorTransition ==
    /\ [](sceneState \in {1, 2})
    /\ [][\A in \in FrameInputs :
            (AtDoor(elapsed, in) /\ FrameStep(elapsed, in)) =>
                /\ sceneState' = 3 - sceneState
                /\ player'.velocity = <<0, 0, 0>>
                /\ player'.angularVelocity = <<0, 0, 0>>
                /\ player'.position =
                      (IF sceneState = 1 THEN <<0, 20, 1000>> ELSE <<0, 20, -60>>)]_vars
    /\ [][sceneState' # sceneState =>
            \E in \in FrameInputs :
                AtDoor(elapsed, in) /\ FrameStep(elapsed, in)]_vars

\* The player has gone to room 2 and has just come back through door 2.
C9_Witness ==
    /\ variant = "main"
    /\ sceneState = 1
    /\ player.position = Scene1Spawn
    /\ player.velocity = Zero3
    /\ Within(player.meshPosition, Door2Pos, DoorReach)

(* C10 *)

\* C10: right after spawnKey or spawnButton returns, the new object's mesh
\* position equals the position given to its body.
C10_MeshAtBodyAfterSpawn ==
    [][/\ (InitSpawnKey \/ InitRespawnKey) =>
            meshes'[key'.id].position = bodies'[key'.id].position
       /\ (InitSpawnButton \/ InitSpawnButtonB) =>
            meshes'[button'.id].position = bodies'[button'.id].position]_vars

(* C11 *)

\* C11: in the two-room variant a click that hits the active key adds 1 to
\* the count of the key's colour and leaves the other counts, score,
\* timeLeft and the button as they were; the key's body and mesh are taken
\* out and exactly one new key (a body at the drawn place, with a mesh of
\* its own) becomes the active key; a click that misses changes none of
\* the inventory, the key, the button, score and timeLeft.
C11_ClickPicksUpKey ==
    /\ [][\A c \in ColorDraws, d \in KeyDraws :
            Click(TRUE, c, d) =>
                /\ inventory' = [inventory EXCEPT ![key.color] = @ + 1]
                /\ UNCHANGED <<score, timeLeft, button>>
                /\ bodies'[button.id] = bodies[button.id]
                /\ meshes'[button.id] = meshes[button.id]
                /\ Cardinality(DOMAIN bodies') = Cardinality(DOMAIN bodies)
                /\ Cardinality(DOMAIN meshes') = Cardinality(DOMAIN meshes)
                /\ \A id \in (DOMAIN bodies') \ {key'.id} :
                      id \in DOMAIN bodies /\ id # key.id
                /\ key'.color = c
                /\ bodies'[key'.id].size = KeySize
                /\ bodies'[key'.id].position = <<d.x, 5, d.z + BaseZ(d.scene)>>
                /\ meshes'[key'.id].position = Zero3]_vars
    /\ []((variant = "main" /\ Running) =>
            \A c \in ColorDraws, d \in KeyDraws :
                LET r == mousedown(S, FALSE, c, d) IN
                /\ r.inventory = inventory /\ r.key = key /\ r.button = button
                /\ r.score = score /\ r.timeLeft = timeLeft
                /\ r.bodies = bodies /\ r.meshes = meshes)

\* A key has been picked up in the middle of play while a key of another
\* colour was held: a match has been scored, two keys of two colours are
\* held and the active key's mesh has not been synced yet.
C11_Witness ==
    /\ variant = "main"
    /\ Running
    /\ score >= 1
    /\ Held = 2
    /\ Cardinality({c \in KeyColors : inventory[c] = 1}) = 2
    /\ meshes[key.id].position = Zero3
    /\ meshes[button.id].position = bodies[button.id].position

(* C12 *)

\* C12: the frame that brings timeLeft to 0 ends the game as a loss and
\* does nothing else: score, the inventory, the key, the button, the room
\* tag, the cooldown, the player's body and mesh, the key/button bodies
\* and meshes and the pending timers are as before it, also when the player
\* is within 1 of a button whose colour is held.
C12_TimeoutStopsFrame ==
    [][(~gameOver /\ timeLeft > 0 /\ timeLeft' = 0) =>
          /\ LoseTransition
          /\ UNCHANGED <<score, inventory, key, button, sceneState,
                         hitCooldown, player, bodies, meshes, timers>>]_vars

\* The two-room game has been lost at score 9 with the player on a button
\* whose colour is held and a cooldown the last frame would have used up.
C12_Witness ==
    /\ variant = "main"
    /\ gameOver
    /\ timeLeft = 0
    /\ score = 9
    /\ inventory[button.color] >= 1
    /\ Within(player.position, bodies[button.id].position, ButtonReach)
    /\ hitCooldown - LongFrame <= 0

(* C13 *)

\* C13: a frame that comes less than 0.3 s of accumulated frame time after
\* the frame of the last button hit resolves no hit: it scores nothing,
\* leaves the inventory and the button alone and sets no no-key or scale
\* timer, wherever the player is; and every frame that scores is a hit.
C13_HitsApart ==
    /\ [][\A in \in AnyFrameInputs :
            (/\ Running /\ ~gameOver
             /\ sinceHit + elapsed < HitCooldownTime
             /\ AnyFrameStep(elapsed, in)) =>
                /\ score' = score
                /\ UNCHANGED <<inventory, button>>
                /\ HitTimers(timers') <= HitTimers(timers)]_vars
    /\ [][score' # score => sinceHit' = 0]_vars

\* The player has stayed on the button for two tiny frames after a hit, and
\* the hit has not been repeated.
C13_Witness ==
    /\ Running
    /\ ~gameOver
    /\ score = 1
    /\ sinceHit = 2 * TinyFrame
    /\ sinceHit < HitCooldownTime
    /\ hitCooldown > 0
    /\ Within(player.position, bodies[button.id].position, ButtonReach)

(* C15 *)

\* C15: once the game is over the message element is displayed and shows a
\* mission-complete or mission-failed text.
C15_TerminalMessageStays ==
    gameOver =>
        /\ hudMsg.display = "block"
        /\ hudMsg.text \in AllCompleteTexts \cup AllFailedTexts

\* The won game's mission-complete message has been hidden by the timer of
\* a message shown before the win.
C15_Witness ==
    /\ variant = "main"
    /\ gameOver
    /\ score = 10
    /\ hudMsg.display = "none"
    /\ hudMsg.text \in AllCompleteTexts

(* C16 *)

\* C16: in the two-room variant the number of keys picked up equals score
\* plus the three inventory counts; a step changes these counters only as a
\* pickup (one more pickup, one more key of one colour) or as a match (one
\* key of the button's colour less, score one more).
C16_KeysConserved ==
    /\ [](variant = "main" => pickups = score + Held)
    /\ [][variant = "main" =>
            \/ UNCHANGED <<score, inventory, pickups>>
            \/ /\ pickups' = pickups + 1
               /\ score' = score
               /\ inventory' = [inventory EXCEPT ![key.color] = @ + 1]
            \/ /\ pickups' = pickups
               /\ score' = score + 1
               /\ inventory[button.color] >= 1
               /\ inventory' = [inventory EXCEPT ![button.color] = @ - 1]]_vars

\* Three keys have been picked up, one has been used, and the two held are
\* not of the colour of the button.
C16_Witness ==
    /\ variant = "main"
    /\ pickups = 3
    /\ score = 1
    /\ Held = 2
    /\ inventory[button.color] = 0

(* C17 *)

\* The pending timers of door messages.
DoorTimers(ts) ==
    Cardinality({i \in DOMAIN ts : ts[i].src \in {"backScene1", "enterScene2"}})

SpawnOf(sceneIndex) == IF sceneIndex = 1 THEN Scene1Spawn ELSE Scene2Spawn

\* What is left of the way from a room's spawn point to within 1.5 of its
\* door, in whole tenths: 30.0 - 1.5 in room 1, 25.0 - 1.5 in room 2.
Remaining(sceneIndex) == IF sceneIndex = 1 THEN 285 ELSE 235

\* C17: in the two-room variant a frame makes at most one room transition
\* (it sets at most one door message timer, and none without flipping the
\* room tag); a transition leaves the player at the new room's spawn point,
\* farther than 1.5 from that room's door and no nearer to where the door
\* check fires than the remaining distance; and a frame that finds the
\* player at the room's spawn point, whatever time has passed, makes no
\* transition when its physics step moves the player by less than the
\* remaining distance.
C17_OneTransitionPerFrame ==
    /\ [][variant = "main" =>
            /\ DoorTimers(timers') <= DoorTimers(timers) + 1
            /\ DoorTimers(timers') > DoorTimers(timers) =>
                  sceneState' # sceneState]_vars
    /\ [][sceneState' # sceneState =>
            /\ player'.position =
                  (IF sceneState' = 2 THEN <<0, 20, 1000>> ELSE <<0, 20, -60>>)
            /\ ~Within(player'.position, DoorOf(sceneState'), DoorReach)
            /\ ~Within(player'.position, DoorOf(sceneState'),
                       Remaining(sceneState') + DoorReach)]_vars
    /\ [][\A in \in FrameInputs :
            (/\ player.position = SpawnOf(sceneState)
             /\ Within(PosAfterStep(elapsed, in), player.position,
                       Remaining(sceneState))
             /\ FrameStep(elapsed, in)) => sceneState' = sceneState]_vars

\* The player has come into room 2, and the next frame, some time later, has
\* moved the player away from the spawn point by less than the remaining
\* distance: the player is still in room 2 and the door message's timer has
\* not run.
C17_Witness ==
    /\ variant = "main"
    /\ ~gameOver
    /\ sceneState = 2
    /\ elapsed = 0
    /\ player.position # Scene2Spawn
    /\ player.meshPosition = player.position
    /\ Within(player.position, Scene2Spawn, Remaining(2))
    /\ \E i \in DOMAIN timers :
          /\ timers[i].src = "enterScene2"
          /\ timers[i].rem \in {DoorMsgDelay - ShortFrame, DoorMsgDelay - TinyFrame}

====
